---- MODULE Spec2Model ----
(***************************************************************************)
(* Model of the live translator (translator.py): the reconnect supervisor  *)
(* run_translator, one connection run_session with its receive loop        *)
(* (transcript accumulator) and translator task, its capture and send      *)
(* tasks, the language classifiers and the session ledger                  *)
(* TranslatorSession.  Text is a sequence of Unicode code points.          *)
(***************************************************************************)
EXTENDS Integers, Sequences, FiniteSets, TLC

(* ---- translation settings (translator.py:20-22) ---- *)
CHUNK_DURATION_SEC == 10
MIN_CHUNK_LENGTH == 5
SENTENCE_FLUSH_MIN == 1

\* the number of pairs the translator asks get_context for (translator.py:276)
CONTEXT_N == 5

(* ---- bounds of the model ---- *)
MaxChunks == 2
MaxTokens == 1
MaxBuf == 7
MaxLedger == 2
MaxFrames == 2
MaxProbe == 4
MaxContextLedger == 7
MaxShortBuf == 5

None == 0

(* ---- text ---- *)
SENTENCE_ENDERS == {46, 33, 63, 12290, 65281, 65311}

NOISE_MARKERS ==
  { <<60, 110, 111, 105, 115, 101, 62>>, <<60, 115, 111, 117, 110, 100, 62>>, <<>> }

FRENCH_CHARS ==
  {224, 226, 228, 233, 232, 234, 235, 239, 238, 244, 249, 251, 252, 231, 339, 230,
   192, 194, 196, 201, 200, 202, 203, 207, 206, 212, 217, 219, 220, 199, 338, 198}

\* str.strip() removes the characters for which str.isspace() holds
IsSpace(c) == c \in {9, 10, 11, 12, 13, 28, 29, 30, 31, 32, 133, 160}

RECURSIVE LStrip(_)
LStrip(s) ==
  IF s = <<>> THEN s
  ELSE IF IsSpace(Head(s)) THEN LStrip(Tail(s)) ELSE s

RECURSIVE RStrip(_)
RStrip(s) ==
  IF s = <<>> THEN s
  ELSE IF IsSpace(s[Len(s)]) THEN RStrip(SubSeq(s, 1, Len(s) - 1)) ELSE s

Strip(s) == RStrip(LStrip(s))

\* len(text.replace(" ", "")): only U+0020 is removed
NonSpace(s) == Cardinality({i \in 1..Len(s) : s[i] # 32})

IsAsciiAlpha(c) == (65 <= c /\ c <= 90) \/ (97 <= c /\ c <= 122)

ends_with_sentence(text) ==
  LET t == RStrip(text) IN Len(t) > 0 /\ t[Len(t)] \in SENTENCE_ENDERS

is_korean(text) ==
  LET korean_count == Cardinality({i \in 1..Len(text) :
                         \/ (44032 <= text[i] /\ text[i] <= 55215)
                         \/ (4352 <= text[i] /\ text[i] <= 4607)})
      non_space == NonSpace(text)
  IN non_space > 0 /\ 10 * korean_count > 3 * non_space

is_japanese(text) ==
  LET jp_count == Cardinality({i \in 1..Len(text) :
                         \/ (12352 <= text[i] /\ text[i] <= 12447)
                         \/ (12448 <= text[i] /\ text[i] <= 12543)
                         \/ (19968 <= text[i] /\ text[i] <= 40959)})
      non_space == NonSpace(text)
  IN non_space > 0 /\ 10 * jp_count > 3 * non_space

is_french(text) ==
  LET french_count == Cardinality({i \in 1..Len(text) : text[i] \in FRENCH_CHARS})
      ascii_alpha == Cardinality({i \in 1..Len(text) : IsAsciiAlpha(text[i])})
      non_space == NonSpace(text)
  IN non_space > 0 /\ 2 * ascii_alpha > non_space
     /\ (french_count > 0 \/ ascii_alpha > 0)

\* an is_valid_transcription whose English test lets accented letters pass
is_valid_transcription_accents_pass(text, lang) ==
  IF Strip(text) \in NOISE_MARKERS THEN FALSE
  ELSE IF lang = "ja" THEN is_japanese(text)
  ELSE IF lang = "ko" THEN is_korean(text)
  ELSE IF lang = "en" THEN
    LET ascii_count == Cardinality({i \in 1..Len(text) : IsAsciiAlpha(text[i])})
        non_space == NonSpace(text)
    IN non_space > 0 /\ 2 * ascii_count > non_space
  ELSE IF lang = "fr" THEN is_french(text)
  ELSE TRUE

is_valid_transcription(text, lang) ==
  IF Strip(text) \in NOISE_MARKERS THEN FALSE
  ELSE IF lang = "ja" THEN is_japanese(text)
  ELSE IF lang = "ko" THEN is_korean(text)
  ELSE IF lang = "en" THEN
    LET has_french == \E i \in 1..Len(text) : text[i] \in FRENCH_CHARS
        ascii_count == Cardinality({i \in 1..Len(text) : IsAsciiAlpha(text[i])})
        non_space == NonSpace(text)
    IN non_space > 0 /\ 2 * ascii_count > non_space /\ ~has_french
  ELSE IF lang = "fr" THEN is_french(text)
  ELSE TRUE

(* ---- inputs the environment can produce ---- *)

\* the language tags of LANGUAGES
LANGUAGES == {"en", "ja", "ko", "fr"}

\* characters of each script the classifiers tell apart: a Hangul syllable and
\* a Hangul jamo; a hiragana, a katakana and a CJK ideograph; two ASCII
\* letters; two of the accented French letters
HangulChars == {54620, 4352}
JapaneseChars == {12354, 12459, 26085}
AsciiLetters == {97, 90}
AccentedChars == {233, 338}

Scripts == {HangulChars, JapaneseChars, AsciiLetters \cup AccentedChars}

ProbeChars == UNION Scripts \cup {32}

\* the text is written in one script, possibly with spaces
SingleScript(t) ==
  \E S \in Scripts : \A i \in 1..Len(t) : t[i] \in S \cup {32}

Hello == <<104, 101, 108, 108, 111>>
HelloDot == <<104, 101, 108, 108, 111, 46>>
Blank == <<32>>
Gamsahaeyo == <<44048, 49324, 54644, 50836>>
NoiseTag == <<60, 110, 111, 105, 115, 101, 62>>

\* texts of the input_transcription of one response
Fragments == {Hello, HelloDot, Blank, Gamsahaeyo, NoiseTag}

\* short fragments, several of which make one chunk
Hi == <<104, 105>>
OkDot == <<111, 107, 46>>
Annyeong == <<50504, 45397>>
ShortFragments == {Hi, OkDot, Blank, Annyeong}

\* source languages chosen at start-up
SourceLangs == {"en", "ko"}

\* response.text of the translation call
RespTexts == { <<111, 107>>, <<32, 111, 107, 32>>, <<32>> }

\* f"[Translation error: {e}]" with e = "x"
ErrorMarker ==
  <<91, 84, 114, 97, 110, 115, 108, 97, 116, 105, 111, 110, 32,
    101, 114, 114, 111, 114, 58, 32, 120, 93>>

\* arguments of add_pair in the ledger-only specification
LedgerTexts ==
  { <<>>, <<32>>, <<9, 10>>, <<111, 107>>, <<32, 111, 107, 32>>, <<104, 105>>, <<104, 32, 105>> }

VARIABLES
  supPc,              \* run_translator: "loop" | "in_session" | "backoff" | "stopped"
  resume_handle,      \* run_translator.resume_handle
  sessPc,             \* run_session: "none" | "connecting" | "streaming" | "grace"
  ending,             \* how the body of run_session was left
  session_error,      \* run_session.session_error is set
  handle_arg,         \* run_session parameter resume_handle
  new_resume_handle,  \* run_session.new_resume_handle
  running,            \* run_session.running
  current_buffer,     \* receive.current_buffer
  elapsed,            \* time.time() - receive.last_chunk_time, in seconds
  translation_queue,  \* run_session.translation_queue
  trPc,               \* translator task: "none" | "waiting" | "translating" | "cancelled"
  trChunk,            \* translator.source_text while the call is in flight
  captureTask,        \* capture task: "none" | "running" | "cancelled"
  sendTask,           \* send task: "none" | "running" | "stopped" | "failed"
  queue,              \* the frame queue: the number of frames it holds
  pairs,              \* TranslatorSession.pairs (and the lines of the file)
  chunk_count,        \* TranslatorSession.chunk_count
  source_lang,        \* the selected source language
  streamOpen,         \* a device stream opened by run_session is open
  reconnected,        \* history: a connection was opened after another one ended
  issued,             \* history: last token issued by the remote session
  nextId,             \* history: identity of the next chunk enqueued
  fate,               \* history: what became of each chunk
  backedOff,          \* history: the backoff sleep ran since run_session last ended
  cancelRequested,    \* history: the user cancelled
  probe,              \* ClassifierSpec: the text handed to is_valid_transcription
  verdict,            \* ClassifierSpec: the languages it is valid for
  lastCall            \* history (LedgerSpec): the last add_pair call, its result and the ledger before it

vars ==
  << supPc, resume_handle, sessPc, ending, session_error, handle_arg,
     new_resume_handle, running, current_buffer, elapsed, translation_queue,
     trPc, trChunk, captureTask, sendTask, queue, pairs, chunk_count, source_lang,
     streamOpen, reconnected, issued, nextId, fate, backedOff,
     cancelRequested, probe, verdict, lastCall >>

supVars == << supPc, resume_handle >>
connVars ==
  << sessPc, ending, session_error, handle_arg, new_resume_handle, running,
     current_buffer, elapsed, translation_queue, trPc, trChunk, captureTask,
     sendTask, queue, streamOpen >>
ledgerVars == << pairs, chunk_count, lastCall >>
probeVars == << probe, verdict >>

\* a chunk of the queue, with the history of what put it there
\* (the chunk in translation also has the context its call was given)
NoChunk == [id |-> 0, text |-> <<>>, why |-> "none", context |-> <<>>]
NoCall == [input |-> <<>>, output |-> <<>>, ret |-> FALSE, count |-> 0, len |-> 0]

\* the readings of the receive clock the model distinguishes: both sides of
\* the two thresholds of the flush policy
ClockReadings ==
  {0, SENTENCE_FLUSH_MIN, CHUNK_DURATION_SEC - 1, CHUNK_DURATION_SEC}

Init ==
  /\ supPc = "loop"
  /\ resume_handle = None
  /\ sessPc = "none"
  /\ ending = "none"
  /\ session_error = FALSE
  /\ handle_arg = None
  /\ new_resume_handle = None
  /\ running = FALSE
  /\ current_buffer = <<>>
  /\ elapsed = 0
  /\ translation_queue = <<>>
  /\ trPc = "none"
  /\ trChunk = NoChunk
  /\ captureTask = "none"
  /\ sendTask = "none"
  /\ queue = 0
  /\ pairs = <<>>
  /\ chunk_count = 0
  /\ source_lang \in SourceLangs
  /\ streamOpen = FALSE
  /\ reconnected = FALSE
  /\ issued = None
  /\ nextId = 1
  /\ fate = [i \in 1..MaxChunks |-> "none"]
  /\ backedOff = FALSE
  /\ cancelRequested = FALSE
  /\ probe = <<>>
  /\ verdict = {}
  /\ lastCall = NoCall

(* ---- TranslatorSession ---- *)

\* add_pair that counts a pair before it has checked it
add_pair_counts_first(ps, cc, input_text, output_text, cid, re) ==
  IF Strip(input_text) # <<>> /\ Strip(output_text) # <<>>
  THEN [pairs |-> Append(ps, [chunk |-> cc + 1, input |-> Strip(input_text),
                              output |-> Strip(output_text), cid |-> cid, re |-> re]),
        chunk_count |-> cc + 1, ret |-> TRUE]
  ELSE [pairs |-> ps, chunk_count |-> cc + 1, ret |-> FALSE]

\* add_pair that tests the translated text without trimming it
add_pair_untrimmed(ps, cc, input_text, output_text, cid, re) ==
  IF Strip(input_text) # <<>> /\ output_text # <<>>
  THEN [pairs |-> Append(ps, [chunk |-> cc + 1, input |-> Strip(input_text),
                              output |-> Strip(output_text), cid |-> cid, re |-> re]),
        chunk_count |-> cc + 1, ret |-> TRUE]
  ELSE [pairs |-> ps, chunk_count |-> cc, ret |-> FALSE]

\* add_pair: the new ledger, the new counter and the value returned
add_pair(ps, cc, input_text, output_text, cid, re) ==
  IF Strip(input_text) # <<>> /\ Strip(output_text) # <<>>
  THEN [pairs |-> Append(ps, [chunk |-> cc + 1, input |-> Strip(input_text),
                              output |-> Strip(output_text), cid |-> cid, re |-> re]),
        chunk_count |-> cc + 1, ret |-> TRUE]
  ELSE [pairs |-> ps, chunk_count |-> cc, ret |-> FALSE]

\* a get_context that returns the first n pairs
get_context_oldest(ps, n) ==
  IF ps # <<>> THEN SubSeq(ps, 1, IF Len(ps) > n THEN n ELSE Len(ps)) ELSE <<>>

\* get_context: pairs[-n:], the whole list when it has fewer than n pairs
get_context(ps, n) ==
  IF ps # <<>> THEN SubSeq(ps, IF Len(ps) > n THEN Len(ps) - n + 1 ELSE 1, Len(ps)) ELSE <<>>

(* ---- translate_text ---- *)

\* a translate_text that returns an empty text when the call raises
translate_text_blank_on_error(ok, resp) == IF ok THEN Strip(resp) ELSE <<>>

\* the text returned: the stripped response, or the error marker when the call raises
translate_text(ok, resp) == IF ok THEN Strip(resp) ELSE ErrorMarker

(* ---- the queues ---- *)

\* asyncio.Queue() is created without a maxsize: 0, which asyncio reads as no limit
QUEUE_MAXSIZE == 0

\* Queue.full(): a put waits while it holds
QueueFull(n) == QUEUE_MAXSIZE > 0 /\ n >= QUEUE_MAXSIZE


Enqueue(q, id, text, why) == Append(q, [id |-> id, text |-> text, why |-> why])

\* a get that takes the newest item
QueueGetNewest(q) == q[Len(q)]

\* translation_queue.get(): the oldest item
QueueGet(q) == Head(q)

QueueRest(q) == Tail(q)

(* ---- receive: one response of the stream ---- *)

\* the handle kept after a session_resumption_update (None when the response has none)
HandleUpdate(sru, nh) ==
  IF sru.resumable /\ sru.new_handle # None THEN sru.new_handle ELSE nh

\* an accumulator that takes every fragment
AccumulateAll(buf, text, lang) == buf \o text

\* the buffer after the input transcription of a response
Accumulate(buf, text, lang) ==
  IF text # <<>> /\ (is_valid_transcription(text, lang) \/ Strip(text) \in NOISE_MARKERS)
  THEN buf \o text
  ELSE buf

\* a flush policy whose sentence rule needs more than the minimum
should_flush_after_minimum(buf, el) ==
  /\ Strip(buf) # <<>>
  /\ \/ el >= CHUNK_DURATION_SEC
     \/ (el > SENTENCE_FLUSH_MIN /\ ends_with_sentence(buf))

\* a flush policy whose duration rule fires one reading early
should_flush_early(buf, el) ==
  /\ Strip(buf) # <<>>
  /\ \/ el >= CHUNK_DURATION_SEC - 1
     \/ (el >= SENTENCE_FLUSH_MIN /\ ends_with_sentence(buf))

should_flush(buf, el) ==
  /\ Strip(buf) # <<>>
  /\ \/ el >= CHUNK_DURATION_SEC
     \/ (el >= SENTENCE_FLUSH_MIN /\ ends_with_sentence(buf))

\* a receive that applies the flush policy to an interruption
ReceiveStepInterruptByPolicy(sc, text, buf, el, lang) ==
  IF sc = "none" THEN [buffer |-> buf, elapsed |-> el, put |-> <<>>, why |-> "none"]
  ELSE LET b == IF sc = "interrupted" THEN buf ELSE Accumulate(buf, text, lang)
       IN IF should_flush(b, el)
          THEN [buffer |-> <<>>, elapsed |-> 0, put |-> Strip(b),
                why |-> IF sc = "interrupted" THEN "interrupted"
                        ELSE IF el >= CHUNK_DURATION_SEC THEN "duration" ELSE "sentence"]
          ELSE [buffer |-> b, elapsed |-> el, put |-> <<>>, why |-> "none"]

\* server_content of one response: the buffer and timer afterwards and the
\* chunk put on the queue (<<>> when none is)
ReceiveStep(sc, text, buf, el, lang) ==
  IF sc = "none" THEN [buffer |-> buf, elapsed |-> el, put |-> <<>>, why |-> "none"]
  ELSE IF sc = "interrupted"
  THEN [buffer |-> <<>>, elapsed |-> 0, put |-> Strip(buf), why |-> "interrupted"]
  ELSE LET b == Accumulate(buf, text, lang)
       IN IF should_flush(b, el)
          THEN [buffer |-> <<>>, elapsed |-> 0, put |-> Strip(b),
                why |-> IF el >= CHUNK_DURATION_SEC THEN "duration" ELSE "sentence"]
          ELSE [buffer |-> b, elapsed |-> el, put |-> <<>>, why |-> "none"]

\* session_resumption_update of one response, given the next fresh token
ResumptionUpdates(fresh) ==
  { [resumable |-> FALSE, new_handle |-> None],
    [resumable |-> TRUE, new_handle |-> fresh] }

ServerContents == {"none", "interrupted", "content"}

(* ---- run_translator: what the loop does with the way run_session ended ---- *)

\* a loop that also leaves on a timeout
SupervisorLeavesOnTimeout(outcome) ==
  CASE outcome = "error" -> "backoff"
    [] OTHER -> "stopped"

\* a loop that calls run_session again after a cancellation
SupervisorReconnectsOnCancel(outcome) ==
  CASE outcome = "return" -> "stopped"
    [] outcome = "timeout" -> "loop"
    [] outcome = "error" -> "backoff"
    [] OTHER -> "loop"

SupervisorAfter(outcome) ==
  CASE outcome = "return" -> "stopped"
    [] outcome = "timeout" -> "loop"
    [] outcome = "error" -> "backoff"
    [] OTHER -> "stopped"

HandleAfter(outcome, rh, new_handle) ==
  IF outcome = "return" /\ new_handle # None THEN new_handle ELSE rh

\* how run_session ends once its finally block has run
SessionOutcome(end, err) ==
  IF end = "timeout" THEN "timeout"
  ELSE IF end = "cancel" THEN "cancel"
  ELSE IF err THEN "error"
  ELSE "return"

(* ---- actions ---- *)

\* run_translator calls run_session: the device is opened, the queues and
\* flags are created, the capture and translator tasks are created
StartSession ==
  /\ supPc = "loop"
  /\ \E opened \in BOOLEAN :
       IF opened
       THEN /\ supPc' = "in_session"
            /\ reconnected' = (reconnected \/ ending # "none")
            /\ sessPc' = "connecting"
            /\ streamOpen' = TRUE
            /\ queue' = 0
            /\ translation_queue' = <<>>
            /\ running' = TRUE
            /\ new_resume_handle' = None
            /\ handle_arg' = resume_handle
            /\ captureTask' = "running"
            /\ trPc' = "waiting"
            /\ trChunk' = NoChunk
            /\ sendTask' = "none"
            /\ session_error' = FALSE
            /\ ending' = "none"
            /\ current_buffer' = <<>>
            /\ elapsed' = 0
       ELSE /\ supPc' = SupervisorAfter("error")
            /\ UNCHANGED << connVars, reconnected >>
  /\ backedOff' = FALSE
  /\ UNCHANGED << resume_handle, pairs, chunk_count, source_lang, issued,
                  nextId, fate, cancelRequested, lastCall >>
  /\ UNCHANGED probeVars

\* client.aio.live.connect succeeds: send task created, receive starts
ConnectOk ==
  /\ sessPc = "connecting"
  /\ sessPc' = "streaming"
  /\ sendTask' = "running"
  /\ current_buffer' = <<>>
  /\ elapsed' = 0
  /\ UNCHANGED << queue, supVars, ending, session_error, handle_arg, new_resume_handle,
                  running, translation_queue, trPc, trChunk, captureTask, streamOpen,
                  ledgerVars, source_lang, reconnected, issued, nextId, fate,
                  backedOff, cancelRequested >>
  /\ UNCHANGED probeVars

\* translator_task.cancel(): a call in flight is abandoned with its chunk
CancelTranslator(f) ==
  [id \in DOMAIN f |-> IF f[id] = "translating" THEN "cancelled" ELSE f[id]]

\* a finally block that leaves the translator task running
FinallyKeepsTranslator ==
  /\ running' = FALSE
  /\ captureTask' = "cancelled"
  /\ trPc' = trPc
  /\ trChunk' = trChunk
  /\ current_buffer' = <<>>
  /\ elapsed' = 0
  /\ sessPc' = "grace"

\* the finally block of run_session up to its sleep
Finally ==
  /\ running' = FALSE
  /\ captureTask' = "cancelled"
  /\ trPc' = "cancelled"
  /\ trChunk' = NoChunk
  /\ current_buffer' = <<>>
  /\ elapsed' = 0
  /\ sessPc' = "grace"

\* client.aio.live.connect raises
ConnectFails ==
  /\ sessPc = "connecting"
  /\ session_error' = TRUE
  /\ ending' = "error"
  /\ Finally
  /\ fate' = CancelTranslator(fate)
  /\ UNCHANGED << queue, supVars, handle_arg, new_resume_handle,
                  translation_queue, sendTask, streamOpen, ledgerVars, source_lang,
                  reconnected, issued, nextId, backedOff, cancelRequested >>
  /\ UNCHANGED probeVars

\* time passes on the receive clock, up to its next reading
Tick ==
  /\ sessPc = "streaming"
  /\ elapsed < CHUNK_DURATION_SEC
  /\ elapsed' \in ClockReadings
  /\ elapsed' > elapsed
  /\ \A t \in ClockReadings : t > elapsed => elapsed' <= t
  /\ UNCHANGED << queue, supVars, sessPc, ending, session_error, handle_arg,
                  new_resume_handle, running, current_buffer, translation_queue,
                  trPc, trChunk, captureTask, sendTask, streamOpen, ledgerVars,
                  source_lang, reconnected, issued, nextId, fate, backedOff,
                  cancelRequested >>
  /\ UNCHANGED probeVars

\* receive processes one response of the stream: its session_resumption_update,
\* its server_content and the input transcription the content carries
ReceiveResp(sru, sc, text) ==
  /\ sessPc = "streaming"
  /\ UNCHANGED << queue, supVars, sessPc, ending, session_error, handle_arg, running,
                  trPc, trChunk, captureTask, sendTask, streamOpen, ledgerVars,
                  source_lang, reconnected, backedOff, cancelRequested >>
  /\ LET r == ReceiveStep(sc, text, current_buffer, elapsed, source_lang)
         tokenIssued == sru.resumable /\ sru.new_handle # None
     IN /\ sc # "content" => text = <<>>
        /\ tokenIssued => issued < MaxTokens
        /\ new_resume_handle' = HandleUpdate(sru, new_resume_handle)
        /\ issued' = IF tokenIssued THEN sru.new_handle ELSE issued
        /\ Len(Accumulate(current_buffer, text, source_lang)) <= MaxBuf
        /\ r.put # <<>> => nextId <= MaxChunks
        /\ current_buffer' = r.buffer
        /\ elapsed' = r.elapsed
        /\ IF r.put # <<>>
           THEN /\ translation_queue' = Enqueue(translation_queue, nextId, r.put, r.why)
                /\ nextId' = nextId + 1
                /\ fate' = [fate EXCEPT ![nextId] = "queued"]
           ELSE UNCHANGED << translation_queue, nextId, fate >>
  /\ UNCHANGED probeVars

ReceiveEvent ==
  \E sru \in ResumptionUpdates(issued + 1), sc \in ServerContents,
     text \in Fragments \cup {<<>>} : ReceiveResp(sru, sc, text)

\* the stream raises: receive flushes the buffer and re-raises, run_session
\* stores the error and runs its finally block
ReceiveError ==
  /\ sessPc = "streaming"
  /\ IF Strip(current_buffer) # <<>>
     THEN /\ nextId <= MaxChunks
          /\ translation_queue' = Enqueue(translation_queue, nextId, Strip(current_buffer), "error")
          /\ nextId' = nextId + 1
          /\ fate' = CancelTranslator([fate EXCEPT ![nextId] = "queued"])
     ELSE /\ fate' = CancelTranslator(fate)
          /\ UNCHANGED << translation_queue, nextId >>
  /\ session_error' = TRUE
  /\ ending' = "error"
  /\ Finally
  /\ UNCHANGED << queue, supVars, handle_arg, new_resume_handle,
                  sendTask, streamOpen, ledgerVars, source_lang, reconnected,
                  issued, backedOff, cancelRequested >>
  /\ UNCHANGED probeVars

\* wait_for's timeout cancels run_session while it connects or receives
Timeout ==
  /\ supPc = "in_session"
  /\ sessPc \in {"connecting", "streaming"}
  /\ ending' = "timeout"
  /\ Finally
  /\ fate' = CancelTranslator(fate)
  /\ UNCHANGED << queue, supVars, session_error, handle_arg, new_resume_handle,
                  translation_queue, sendTask, streamOpen,
                  ledgerVars, source_lang, reconnected, issued, nextId,
                  backedOff, cancelRequested >>
  /\ UNCHANGED probeVars

\* wait_for's timeout cancels run_session during the sleep of its finally block
TimeoutInGrace ==
  /\ supPc = "in_session"
  /\ sessPc = "grace"
  /\ ending = "error"
  /\ streamOpen' = streamOpen
  /\ ending' = "timeout"
  /\ sessPc' = "none"
  /\ supPc' = SupervisorAfter("timeout")
  /\ resume_handle' = HandleAfter("timeout", resume_handle, new_resume_handle)
  /\ translation_queue' = <<>>
  /\ queue' = 0
  /\ UNCHANGED << session_error, handle_arg, new_resume_handle, running,
                  current_buffer, elapsed, trPc, trChunk,
                  captureTask, sendTask, ledgerVars, source_lang, reconnected, issued,
                  nextId, fate, backedOff, cancelRequested >>
  /\ UNCHANGED probeVars

\* the send task sees running = False at its next poll and leaves its loop
SendStop ==
  /\ sendTask = "running"
  /\ ~running
  /\ sendTask' = "stopped"
  /\ UNCHANGED << queue, supVars, sessPc, ending, session_error, handle_arg,
                  new_resume_handle, running, current_buffer, elapsed,
                  translation_queue, trPc, trChunk, captureTask, streamOpen,
                  ledgerVars, source_lang, reconnected, issued, nextId, fate,
                  backedOff, cancelRequested >>
  /\ UNCHANGED probeVars

\* capture reads one frame from the device and puts it on the frame queue
Capture ==
  /\ captureTask = "running"
  /\ running
  /\ ~QueueFull(queue)
  /\ queue < MaxFrames
  /\ queue' = queue + 1
  /\ UNCHANGED << supVars, sessPc, ending, session_error, handle_arg,
                  new_resume_handle, running, current_buffer, elapsed,
                  translation_queue, trPc, trChunk, captureTask, sendTask,
                  streamOpen, ledgerVars, source_lang, reconnected, issued, nextId,
                  fate, backedOff, cancelRequested >>
  /\ UNCHANGED probeVars

\* stream.read raises: capture leaves its loop
CaptureFail ==
  /\ captureTask = "running"
  /\ running
  /\ captureTask' = "failed"
  /\ UNCHANGED << supVars, sessPc, ending, session_error, handle_arg,
                  new_resume_handle, running, current_buffer, elapsed,
                  translation_queue, trPc, trChunk, sendTask, queue,
                  streamOpen, ledgerVars, source_lang, reconnected, issued, nextId,
                  fate, backedOff, cancelRequested >>
  /\ UNCHANGED probeVars

\* send takes one frame off the frame queue and forwards it
Send ==
  /\ sendTask = "running"
  /\ running
  /\ queue > 0
  /\ queue' = queue - 1
  /\ UNCHANGED << supVars, sessPc, ending, session_error, handle_arg,
                  new_resume_handle, running, current_buffer, elapsed,
                  translation_queue, trPc, trChunk, captureTask, sendTask,
                  streamOpen, ledgerVars, source_lang, reconnected, issued, nextId,
                  fate, backedOff, cancelRequested >>
  /\ UNCHANGED probeVars

\* send takes one frame off the frame queue, send_realtime_input raises: send
\* leaves its loop
SendFail ==
  /\ sendTask = "running"
  /\ running
  /\ queue > 0
  /\ queue' = queue - 1
  /\ sendTask' = "failed"
  /\ UNCHANGED << supVars, sessPc, ending, session_error, handle_arg,
                  new_resume_handle, running, current_buffer, elapsed,
                  translation_queue, trPc, trChunk, captureTask,
                  streamOpen, ledgerVars, source_lang, reconnected, issued, nextId,
                  fate, backedOff, cancelRequested >>
  /\ UNCHANGED probeVars

\* the sleep of the finally block ends (the 0.1 s poll of the send task has
\* elapsed within it): the device is released and run_session ends
GraceDone ==
  /\ sessPc = "grace"
  /\ sendTask # "running"
  /\ streamOpen' = FALSE
  /\ sessPc' = "none"
  /\ LET outcome == SessionOutcome(ending, session_error)
     IN /\ supPc' = SupervisorAfter(outcome)
        /\ resume_handle' = HandleAfter(outcome, resume_handle, new_resume_handle)
  /\ translation_queue' = <<>>
  /\ queue' = 0
  /\ UNCHANGED << ending, session_error, handle_arg, new_resume_handle, running,
                  current_buffer, elapsed, trPc, trChunk,
                  captureTask, sendTask, ledgerVars, source_lang, reconnected,
                  issued, nextId, fate, backedOff, cancelRequested >>
  /\ UNCHANGED probeVars

\* the 2 s sleep of run_translator's error handler ends
BackoffDone ==
  /\ supPc = "backoff"
  /\ supPc' = "loop"
  /\ backedOff' = TRUE
  /\ UNCHANGED << resume_handle, connVars, ledgerVars, source_lang, reconnected,
                  issued, nextId, fate, cancelRequested >>
  /\ UNCHANGED probeVars

\* a length test that also skips a chunk of exactly the minimum length
too_short_or_minimum(source_text) == Len(Strip(source_text)) <= MIN_CHUNK_LENGTH

\* the translator's first test of a chunk
too_short(source_text) == Len(Strip(source_text)) < MIN_CHUNK_LENGTH

\* the translator takes the next chunk off the queue
TranslatorDequeue ==
  /\ trPc = "waiting"
  /\ running
  /\ translation_queue # <<>>
  /\ LET item == QueueGet(translation_queue)
     IN /\ translation_queue' = QueueRest(translation_queue)
        /\ IF too_short(item.text)
           THEN /\ fate' = [fate EXCEPT ![item.id] = "short"]
                /\ UNCHANGED << trPc, trChunk >>
           ELSE IF ~is_valid_transcription(item.text, source_lang)
           THEN /\ fate' = [fate EXCEPT ![item.id] = "rejected"]
                /\ UNCHANGED << trPc, trChunk >>
           ELSE /\ fate' = [fate EXCEPT ![item.id] = "translating"]
                /\ trPc' = "translating"
                /\ trChunk' = [id |-> item.id, text |-> item.text, why |-> item.why,
                               context |-> get_context(pairs, CONTEXT_N)]
  /\ UNCHANGED << queue, supVars, sessPc, ending, session_error, handle_arg,
                  new_resume_handle, running, current_buffer, elapsed, captureTask,
                  sendTask, streamOpen, ledgerVars, source_lang, reconnected,
                  issued, nextId, backedOff, cancelRequested >>
  /\ UNCHANGED probeVars

\* the translation call returns resp (ok) or raises (~ok); the pair is handed
\* to add_pair and the translator goes back to its queue
TranslatorReturns(ok, resp) ==
  /\ trPc = "translating"
  /\ LET translated == translate_text(ok, resp)
         r == add_pair(pairs, chunk_count, trChunk.text, translated, trChunk.id, reconnected)
     IN /\ pairs' = r.pairs
        /\ chunk_count' = r.chunk_count
        /\ fate' = [fate EXCEPT ![trChunk.id] = IF r.ret THEN "appended" ELSE "blank"]
  /\ trPc' = "waiting"
  /\ trChunk' = NoChunk
  /\ UNCHANGED << queue, supVars, sessPc, ending, session_error, handle_arg,
                  new_resume_handle, running, current_buffer, elapsed,
                  translation_queue, captureTask, sendTask, streamOpen, source_lang,
                  reconnected, issued, nextId, backedOff, cancelRequested, lastCall >>
  /\ UNCHANGED probeVars

TranslatorFinish ==
  \E ok \in BOOLEAN, resp \in RespTexts : TranslatorReturns(ok, resp)

\* the user interrupts the program
UserCancel ==
  /\ ~cancelRequested
  /\ cancelRequested' = TRUE
  /\ \/ /\ supPc = "backoff"
        /\ supPc' = "stopped"
        /\ UNCHANGED << connVars, fate >>
     \/ /\ supPc = "in_session"
        /\ sessPc \in {"connecting", "streaming"}
        /\ ending' = "cancel"
        /\ Finally
        /\ fate' = CancelTranslator(fate)
        /\ UNCHANGED << queue, supPc, session_error, handle_arg, new_resume_handle,
                        translation_queue, sendTask, streamOpen >>
     \/ /\ supPc = "in_session"
        /\ sessPc = "grace"
        /\ streamOpen' = streamOpen
        /\ ending' = "cancel"
        /\ sessPc' = "none"
        /\ supPc' = SupervisorAfter("cancel")
        /\ translation_queue' = <<>>
        /\ queue' = 0
        /\ UNCHANGED << session_error, handle_arg, new_resume_handle, running,
                        current_buffer, elapsed, trPc, trChunk,
                        captureTask, sendTask, fate >>
  /\ UNCHANGED << resume_handle, ledgerVars, source_lang, reconnected, issued,
                  nextId, backedOff >>
  /\ UNCHANGED probeVars

Next ==
  \/ StartSession
  \/ ConnectOk
  \/ ConnectFails
  \/ Tick
  \/ ReceiveEvent
  \/ ReceiveError
  \/ Timeout
  \/ TimeoutInGrace
  \/ SendStop
  \/ GraceDone
  \/ BackoffDone
  \/ TranslatorDequeue
  \/ TranslatorFinish
  \/ UserCancel

Spec == Init /\ [][Next]_vars

\* The sleeps of run_session and run_translator end, the send task polls its
\* flag every 0.1 s, and the loop of run_translator goes on to its next call.
FairSpec ==
  /\ Spec
  /\ WF_vars(SendStop)
  /\ WF_vars(GraceDone)
  /\ WF_vars(BackoffDone)
  /\ WF_vars(StartSession)

(* ---- the audio path of a connection ---- *)

\* capture, the frame queue and send, over the whole life of the connections.
\* The audio path and the text path (receive, the chunk queue, the translator)
\* share only the flag running, which is written by run_session alone; Spec
\* follows the text path and AudioSpec the audio path.
AudioNext ==
  \/ StartSession
  \/ ConnectOk
  \/ ConnectFails
  \/ Capture
  \/ CaptureFail
  \/ Send
  \/ SendFail
  \/ ReceiveError
  \/ Timeout
  \/ TimeoutInGrace
  \/ SendStop
  \/ GraceDone
  \/ BackoffDone
  \/ UserCancel

AudioSpec == Init /\ [][AudioNext]_vars

(* ---- the classifier alone: is_valid_transcription called on single-script texts ---- *)

\* the text grows by one character of its script (or a space) and is handed to
\* is_valid_transcription with each language tag
Classify ==
  /\ Len(probe) < MaxProbe
  /\ \E c \in ProbeChars :
       /\ SingleScript(Append(probe, c))
       /\ probe' = Append(probe, c)
       /\ verdict' = {lang \in LANGUAGES : is_valid_transcription(Append(probe, c), lang)}
  /\ UNCHANGED << supVars, connVars, ledgerVars, source_lang, reconnected, issued,
                  nextId, fate, backedOff, cancelRequested >>

ClassifierNext == Classify

ClassifierSpec == Init /\ [][ClassifierNext]_vars

(* ---- receive alone, fed fragments so short that a chunk is made of several ---- *)

\* receive processes one response of the stream whose transcription is short
ReceiveShort ==
  \E sru \in ResumptionUpdates(issued + 1), sc \in ServerContents,
     text \in ShortFragments \cup {<<>>} :
       /\ Len(current_buffer) + Len(text) <= MaxShortBuf
       /\ ReceiveResp(sru, sc, text)

AccumulatorNext ==
  \/ StartSession
  \/ ConnectOk
  \/ ConnectFails
  \/ Tick
  \/ ReceiveShort
  \/ ReceiveError
  \/ Timeout
  \/ SendStop
  \/ GraceDone
  \/ BackoffDone

AccumulatorSpec == Init /\ [][AccumulatorNext]_vars

(* ---- the ledger and its context window over many chunks ---- *)

\* the translator starts the call for a chunk of the queue, whatever receive
\* had put there: the context is read off the ledger
ContextCall ==
  /\ trPc = "waiting"
  /\ running
  /\ chunk_count < MaxContextLedger
  /\ trPc' = "translating"
  /\ trChunk' = [id |-> 0, text |-> Hello, why |-> "none",
                 context |-> get_context(pairs, CONTEXT_N)]
  /\ UNCHANGED << supVars, sessPc, ending, session_error, handle_arg,
                  new_resume_handle, running, current_buffer, elapsed,
                  translation_queue, captureTask, sendTask, queue, streamOpen,
                  ledgerVars, source_lang, reconnected, issued, nextId, fate,
                  backedOff, cancelRequested, probeVars >>

\* the call returns or raises and the pair is handed to add_pair
ContextReturn ==
  /\ trPc = "translating"
  /\ \E ok \in BOOLEAN :
       LET r == add_pair(pairs, chunk_count, trChunk.text,
                         translate_text(ok, <<111, 107>>), 0, reconnected)
       IN /\ pairs' = r.pairs
          /\ chunk_count' = r.chunk_count
  /\ trPc' = "waiting"
  /\ trChunk' = NoChunk
  /\ UNCHANGED << supVars, sessPc, ending, session_error, handle_arg,
                  new_resume_handle, running, current_buffer, elapsed,
                  translation_queue, captureTask, sendTask, queue, streamOpen,
                  source_lang, reconnected, issued, nextId, fate,
                  backedOff, cancelRequested, probeVars, lastCall >>

\* the connections of a run, one after the other, and the calls of their
\* translators on the one TranslatorSession of the run
ContextNext ==
  \/ StartSession
  \/ ConnectOk
  \/ ConnectFails
  \/ ReceiveError
  \/ Timeout
  \/ SendStop
  \/ GraceDone
  \/ BackoffDone
  \/ ContextCall
  \/ ContextReturn

ContextSpec == Init /\ [][ContextNext]_vars

(* ---- the ledger alone: add_pair called with any two texts ---- *)

CallAddPair ==
  /\ chunk_count < MaxLedger
  /\ \E input_text \in LedgerTexts, output_text \in LedgerTexts :
       LET r == add_pair(pairs, chunk_count, input_text, output_text, 0, FALSE)
       IN /\ pairs' = r.pairs
          /\ chunk_count' = r.chunk_count
          /\ lastCall' = [input |-> input_text, output |-> output_text, ret |-> r.ret,
                          count |-> chunk_count, len |-> Len(pairs)]
  /\ UNCHANGED << supVars, connVars, source_lang, reconnected, issued, nextId,
                  fate, backedOff, cancelRequested >>
  /\ UNCHANGED probeVars

LedgerNext == CallAddPair

LedgerSpec == Init /\ [][LedgerNext]_vars

(* ======================= the claims ======================= *)

Ids == 1..MaxChunks

\* a text has a character that str.strip() keeps
HasVisible(s) == \E i \in 1..Len(s) : ~IsSpace(s[i])

\* C1: every chunk put on the chunk queue is dequeued by the translator, also
\* the chunks waiting in the queue when the connection is torn down: when the
\* translator task has ended, no chunk is left in its queue.
C1_NoChunkAbandoned ==
  trPc = "cancelled" => \A id \in Ids : fate[id] # "queued"

\* C2: when a connection is torn down by the timeout or by a stream error with
\* a buffer that is non-empty after trimming, the trimmed buffer is put on the
\* chunk queue at the teardown, and nothing more is put during the rest of it.
C2_FlushOnTeardown ==
  [][ /\ ( /\ sessPc = "streaming"
           /\ sessPc' = "grace"
           /\ ending' \in {"timeout", "error"}
           /\ HasVisible(current_buffer) )
         => translation_queue' =
              Append(translation_queue,
                     [id |-> nextId, text |-> Strip(current_buffer), why |-> "error"])
      /\ (sessPc = "grace" /\ sessPc' = "grace")
         => translation_queue' = translation_queue ]_vars

\* C3: a chunk whose translation call is in flight when the connection is shut
\* down still gets its pair: the call of a dequeued chunk is never abandoned
\* before its pair is handed to add_pair.
C3_InFlightPersisted ==
  \A id \in Ids : fate[id] # "cancelled"

\* C4: after a connection ended by the session timeout during which a token was
\* issued, the next connection is opened with that token.
C4_TimeoutPassesToken ==
  [][ ( /\ supPc = "loop"
        /\ sessPc' = "connecting"
        /\ ending = "timeout"
        /\ new_resume_handle # None )
      => handle_arg' = new_resume_handle ]_vars

\* C5: the token held by run_translator is the token most recently issued by
\* the remote session, and is absent only if none was issued.
C5_HeldTokenIsLatest ==
  resume_handle = issued

\* C6: after a connection ended by an error, the next connection is opened only
\* after the capture, send and translator tasks are down and the backoff sleep
\* has run, and with the last token issued (none if none was).
C6_ErrorReconnect ==
  [][ ( /\ supPc = "loop"
        /\ sessPc' = "connecting"
        /\ ending = "error" )
      => /\ backedOff
         /\ captureTask # "running"
         /\ sendTask # "running"
         /\ trPc \notin {"waiting", "translating"}
         /\ handle_arg' = issued ]_vars

\* C7: run_translator stops only when the user cancelled; after the end of
\* every connection it is back at the head of its loop (or the user cancels),
\* and from there it calls run_session again: the device is opened and the
\* connection attempted, or opening the device fails and is retried after the
\* backoff.
C7_StopsOnlyOnCancel ==
  /\ [](supPc = "stopped" => cancelRequested)
  /\ (sessPc = "grace") ~> (supPc = "loop" \/ supPc = "stopped")
  /\ (supPc = "loop") ~> (sessPc = "connecting" \/ supPc = "backoff")

\* a later connection is streaming after an earlier one ended, without a cancel
C7_Witness ==
  /\ reconnected
  /\ sessPc = "streaming"
  /\ ~cancelRequested

\* C8: the records of the ledger are numbered 1, 2, 3, ... in append order,
\* across reconnects.
C8_SequenceNumbers ==
  \A i \in 1..Len(pairs) : pairs[i].chunk = i

\* two records, the second appended by a later connection than the first
C8_Witness ==
  /\ Len(pairs) >= 2
  /\ ~pairs[1].re
  /\ pairs[2].re

\* C9: add_pair appends one record, counts it and returns True if and only if
\* both texts have a character left after trimming; otherwise the ledger and
\* the counter are as before.
C9_AddPairIff ==
  LET both == HasVisible(lastCall.input) /\ HasVisible(lastCall.output)
      n == IF both THEN 1 ELSE 0
  IN /\ lastCall.ret = both
     /\ Len(pairs) = lastCall.len + n
     /\ chunk_count = lastCall.count + n
     /\ both => /\ pairs[Len(pairs)].input = Strip(lastCall.input)
                /\ pairs[Len(pairs)].output = Strip(lastCall.output)

\* a whitespace-only source with a good translation was rejected after a record
\* had been accepted
C9_Witness ==
  /\ lastCall.input = <<32>>
  /\ HasVisible(lastCall.output)
  /\ ~lastCall.ret
  /\ chunk_count = 1

\* C10: chunks are translated one at a time in the order they were enqueued:
\* no chunk enqueued before the one in translation is still in the queue, at
\* most one call is in flight, and the ledger is in enqueue order.
C10_FifoOneAtATime ==
  /\ \A i, j \in 1..Len(pairs) : i < j => pairs[i].cid < pairs[j].cid
  /\ Cardinality({id \in Ids : fate[id] = "translating"}) <= 1
  /\ trPc = "translating" =>
       /\ fate[trChunk.id] = "translating"
       /\ \A i \in 1..Len(translation_queue) : translation_queue[i].id > trChunk.id

\* a call is in flight while a chunk enqueued later waits in the queue
C10_Witness ==
  /\ trPc = "translating"
  /\ translation_queue # <<>>

\* C11: at most one translator task can append to the ledger: when
\* run_session creates the translator of a connection, the translator of the
\* connection before it has ended (after a timeout and after an error alike),
\* and a translator that has ended appends nothing and stays ended.
C11_OneTranslator ==
  [][ /\ (sessPc # "connecting" /\ sessPc' = "connecting")
         => trPc \notin {"waiting", "translating"}
      /\ trPc = "cancelled"
         => /\ pairs' = pairs
            /\ chunk_count' = chunk_count
            /\ trPc' = "cancelled" \/ (sessPc # "connecting" /\ sessPc' = "connecting") ]_vars

\* the translator of a later connection is in a call, after the translator of
\* an earlier connection was cancelled in the middle of its own
C11_Witness ==
  /\ reconnected
  /\ trPc = "translating"
  /\ \E id \in Ids : fate[id] = "cancelled"

\* the last character str.rstrip() keeps is a sentence terminator
EndsInTerminator(b) ==
  \E i \in 1..Len(b) :
    /\ b[i] \in SENTENCE_ENDERS
    /\ \A j \in (i + 1)..Len(b) : IsSpace(b[j])

\* this step puts exactly one chunk, the trimmed b, on the chunk queue and
\* restarts the buffer and the flush timer
FlushesOnce(b) ==
  /\ Len(translation_queue') = Len(translation_queue) + 1
  /\ SubSeq(translation_queue', 1, Len(translation_queue)) = translation_queue
  /\ translation_queue'[Len(translation_queue')].text = Strip(b)
  /\ current_buffer' = <<>>
  /\ elapsed' = 0

\* this step puts nothing on the chunk queue and keeps b and the flush timer
NoFlush(b) ==
  /\ translation_queue' = translation_queue
  /\ current_buffer' = b
  /\ elapsed' = elapsed

\* the buffer once the response has been accumulated
BufferAt(sc, text) ==
  IF sc = "content" THEN Accumulate(current_buffer, text, source_lang) ELSE current_buffer

Accepted(text) ==
  /\ text # <<>>
  /\ Accumulate(current_buffer, text, source_lang) = current_buffer \o text

\* C13 as stated: an accepted fragment that leaves the buffer without a final
\* terminator causes no flush when processed less than 10 s after the last
\* flush, and exactly one flush when processed at 10 s or more with a buffer
\* that is not empty.
C13_NonEmptyBufferFlushes ==
  [][ \A sru \in ResumptionUpdates(issued + 1), text \in Fragments :
        (ReceiveResp(sru, "content", text) /\ Accepted(text)) =>
          LET b == BufferAt("content", text)
          IN ~EndsInTerminator(b) =>
               /\ elapsed < 10 => NoFlush(b)
               /\ (elapsed >= 10 /\ b # <<>>) => FlushesOnce(b) ]_vars

\* C13 (amended): an accepted fragment that leaves the buffer without a final
\* terminator causes no flush when processed less than 10 s after the last
\* flush, and exactly one flush (the trimmed buffer) when processed at 10 s or
\* more with a buffer that is not empty after trimming; a buffer of whitespace
\* only is kept, and the timer with it.
C13_DurationFlush ==
  [][ \A sru \in ResumptionUpdates(issued + 1), text \in Fragments :
        (ReceiveResp(sru, "content", text) /\ Accepted(text)) =>
          LET b == BufferAt("content", text)
          IN ~EndsInTerminator(b) =>
               /\ elapsed < 10 => NoFlush(b)
               /\ (elapsed >= 10 /\ HasVisible(b)) => FlushesOnce(b)
               /\ (elapsed >= 10 /\ ~HasVisible(b)) => NoFlush(b) ]_vars

\* a chunk without a final terminator flushed by the 10 s rule is the newest
\* of the queue and buffer and timer are reset
C13_Witness ==
  /\ translation_queue # <<>>
  /\ translation_queue[Len(translation_queue)].why = "duration"
  /\ ~EndsInTerminator(translation_queue[Len(translation_queue)].text)
  /\ current_buffer = <<>>
  /\ elapsed = 0

\* C14: an interruption enqueues exactly one chunk, the trimmed buffer, when
\* the buffer is non-empty after trimming, whatever the elapsed time and the
\* last character, and none when it is empty; either way the buffer is empty
\* and the flush timer restarted afterwards.
C14_InterruptionFlush ==
  [][ \A sru \in ResumptionUpdates(issued + 1) :
        ReceiveResp(sru, "interrupted", <<>>) =>
          /\ HasVisible(current_buffer) => FlushesOnce(current_buffer)
          /\ ~HasVisible(current_buffer) => translation_queue' = translation_queue
          /\ current_buffer' = <<>>
          /\ elapsed' = 0 ]_vars

\* an interruption flushed a buffer without a final terminator: the chunk is
\* the newest of the queue and buffer and timer are reset
C14_Witness ==
  /\ translation_queue # <<>>
  /\ translation_queue[Len(translation_queue)].why = "interrupted"
  /\ ~EndsInTerminator(translation_queue[Len(translation_queue)].text)
  /\ current_buffer = <<>>
  /\ elapsed = 0

\* C15: a translation call that fails is not fatal: the translator task stays
\* alive and goes back to its queue, the connection and the supervisor are
\* left as they are, the chunk is not translated again, and the error marker
\* is appended to the ledger as the chunk's translation.
C15_TranslationFailure ==
  [][ \A resp \in RespTexts :
        TranslatorReturns(FALSE, resp) =>
          /\ Len(pairs') = Len(pairs) + 1
          /\ SubSeq(pairs', 1, Len(pairs)) = pairs
          /\ pairs'[Len(pairs')].input = Strip(trChunk.text)
          /\ pairs'[Len(pairs')].output = ErrorMarker
          /\ HasVisible(ErrorMarker)
          /\ trPc' = "waiting"
          /\ fate'[trChunk.id] = "appended"
          /\ \A i \in 1..Len(translation_queue') : translation_queue'[i].id # trChunk.id
          /\ UNCHANGED << supPc, sessPc, running, ending, session_error >> ]_vars

\* a failed call left its error marker in the ledger and the same translator
\* then appended the pair of the next chunk
C15_Witness ==
  /\ Len(pairs) >= 2
  /\ pairs[1].output = ErrorMarker
  /\ pairs[2].cid > pairs[1].cid
  /\ ~pairs[2].re

\* C16: a capture task that failed to read the device, or a send task that
\* failed to forward a frame, has signalled the closure of its connection: the
\* flag running is false (as it is once the teardown has begun).
C16_FailureSignalsClosure ==
  (captureTask = "failed" \/ sendTask = "failed") => ~running

\* C17: a capacity bounds the frame queue and the chunk queue, also while the
\* consumer has not started or is slower than the producer. Stated for the
\* largest capacity that the bounds of the model do not themselves enforce:
\* neither queue ever holds as many items as its producer makes in a run.
C17_QueuesBounded ==
  /\ queue < MaxFrames
  /\ Len(translation_queue) < MaxChunks

\* C18: the device stream opened by a connection is released when the
\* connection ends, whichever way run_session is left: no stream is open once
\* run_session has ended, so none is when the next connection opens its own.
C18_HandleReleased ==
  sessPc = "none" => ~streamOpen

\* C19: once the user has cancelled during a connection, the capture, send,
\* receive and translator tasks all come to a stop and run_translator ends,
\* and no connection is opened after the cancellation.
C19_CancelStopsAll ==
  /\ cancelRequested ~>
        ( /\ supPc = "stopped"
          /\ sessPc \notin {"connecting", "streaming"}
          /\ captureTask # "running"
          /\ sendTask # "running"
          /\ trPc \notin {"waiting", "translating"} )
  /\ [][ cancelRequested => ~(sessPc # "connecting" /\ sessPc' = "connecting") ]_vars

\* the user cancelled a streaming connection whose translator was in a call:
\* the teardown has run, the send task has seen the flag, run_translator ended
C19_Witness ==
  /\ cancelRequested
  /\ ending = "cancel"
  /\ supPc = "stopped"
  /\ sendTask = "stopped"
  /\ captureTask = "cancelled"
  /\ \E id \in Ids : fate[id] = "cancelled"

\* the text has only characters of S and spaces
Only(S, t) == \A i \in 1..Len(t) : t[i] \in S \cup {32}

\* the text has an accented French letter
HasAccent(t) == \E i \in 1..Len(t) : t[i] \in FRENCH_CHARS

\* C20 as stated: a single-script text that is not noise is valid for at most
\* one of the language tags ko, ja, fr, en.
C20_AtMostOneLanguage ==
  (SingleScript(probe) /\ Strip(probe) \notin NOISE_MARKERS)
    => Cardinality(verdict) <= 1

\* C20 (amended): a text that is not noise and is made only of Hangul, only of
\* kana and CJK ideographs, or only of ASCII and accented French letters with
\* at least one accented letter (each possibly with spaces) is valid for at
\* most one language tag; a text made only of unaccented ASCII letters is
\* valid for both en and fr, and for no other tag.
C20_ExclusiveButPlainAscii ==
  Strip(probe) \notin NOISE_MARKERS =>
    /\ ( \/ Only(HangulChars, probe)
         \/ Only(JapaneseChars, probe)
         \/ (Only(AsciiLetters \cup AccentedChars, probe) /\ HasAccent(probe)) )
       => Cardinality(verdict) <= 1
    /\ Only(AsciiLetters, probe) => verdict = {"en", "fr"}

\* a text of ASCII letters with an accented one is valid for fr alone
C20_Witness ==
  /\ HasAccent(probe)
  /\ \E i \in 1..Len(probe) : probe[i] \in AsciiLetters
  /\ verdict = {"fr"}

\* the chunk at the head of the chunk queue
NextChunk == Head(translation_queue)

\* what holds of every chunk, whatever the translator does with it: a call is
\* only started for a chunk still queued, a chunk taken off the queue is never
\* queued again, and only translated chunks have a record in the ledger
CalledAtMostOnce ==
  /\ \A id \in Ids :
       /\ (fate'[id] = "translating" /\ fate[id] # "translating") => fate[id] = "queued"
       /\ fate[id] \notin {"none", "queued"} => fate'[id] # "queued"
       /\ fate[id] \in {"short", "rejected"} => fate'[id] = fate[id]
  /\ \A i \in 1..Len(pairs') : fate'[pairs'[i].cid] = "appended"

\* C21 as stated: a dequeued chunk shorter than 5 characters after trimming
\* is dropped without a call and without a record; every other dequeued chunk
\* is handed to the translation call, exactly once.
C21_LengthAloneDecides ==
  [][ /\ TranslatorDequeue =>
           IF Len(Strip(NextChunk.text)) < 5
           THEN trPc' = "waiting" /\ pairs' = pairs /\ fate'[NextChunk.id] = "short"
           ELSE /\ trPc' = "translating"
                /\ trChunk'.id = NextChunk.id
                /\ trChunk'.text = NextChunk.text
      /\ CalledAtMostOnce ]_vars

\* C21 (amended): a dequeued chunk is dropped, without a call and without a
\* record, when it is shorter than 5 characters after trimming or when, taken
\* as a whole, it is not a valid transcription of the source language (a chunk
\* that is a noise marker, or one whose accepted noise markers outweigh its
\* speech); every other dequeued chunk is handed to the translation call,
\* exactly once.
C21_DropOrTranslateOnce ==
  [][ /\ TranslatorDequeue =>
           IF Len(Strip(NextChunk.text)) < 5
           THEN trPc' = "waiting" /\ pairs' = pairs /\ fate'[NextChunk.id] = "short"
           ELSE IF ~is_valid_transcription(NextChunk.text, source_lang)
           THEN trPc' = "waiting" /\ pairs' = pairs /\ fate'[NextChunk.id] = "rejected"
           ELSE /\ trPc' = "translating"
                /\ trChunk'.id = NextChunk.id
                /\ trChunk'.text = NextChunk.text
      /\ CalledAtMostOnce ]_vars

\* a chunk of four characters was dropped by the length test, and a chunk
\* made of an accepted noise marker is in the queue behind it
C21_Witness ==
  /\ \E id \in Ids : fate[id] = "short"
  /\ pairs = <<>>
  /\ trPc = "waiting"
  /\ translation_queue # <<>>
  /\ NextChunk.text = NoiseTag

\* C22: the context given to the translation call of a chunk is the last
\* min(5, k) pairs of the ledger, in ledger order, k being the number of pairs
\* accepted so far in the run, by this connection or an earlier one; and no
\* pair is appended while the call is in flight, so the context has no pair
\* of a chunk completed after the one in translation.
C22_ContextWindow ==
  [][ /\ trPc' = "translating" =>
           LET k == IF Len(pairs') < 5 THEN Len(pairs') ELSE 5
           IN /\ Len(trChunk'.context) = k
              /\ \A i \in 1..k : trChunk'.context[i] = pairs'[Len(pairs') - k + i]
      /\ (trPc = "translating" /\ trPc' = "translating") => pairs' = pairs ]_vars

\* a call of a later connection has a context of five pairs, cut from a
\* longer ledger, that begins with a pair of an earlier connection
C22_Witness ==
  /\ trPc = "translating"
  /\ reconnected
  /\ Len(pairs) > 5
  /\ Len(trChunk.context) = 5
  /\ ~trChunk.context[1].re
  /\ trChunk.context[5].re

(* ---- C23 ---- *)

\* the fragment passes the language check of the active source language or
\* is a noise marker
PassesOrNoise(text) ==
  /\ text # <<>>
  /\ (is_valid_transcription(text, source_lang) \/ Strip(text) \in NOISE_MARKERS)

\* C23: every chunk put on the chunk queue is non-empty and is the trimmed
\* concatenation, in arrival order, of exactly the fragments accepted since
\* the previous flush or interruption of the same connection. Step by step:
\* a response with a rejected fragment (or none) leaves the buffer as it was
\* and one with an accepted fragment appends exactly that fragment, and then
\* either nothing is put, or the trimmed buffer, non-empty, is put once and
\* the buffer restarts empty, or an interruption discards a blank buffer;
\* whatever the step, the buffer only stays, restarts empty or grows by one
\* accepted fragment, a put is one non-empty chunk and leaves the buffer
\* empty, and a connection starts streaming with an empty buffer.
C23_ChunkIsAcceptedFragments ==
  [][ /\ \A sru \in ResumptionUpdates(issued + 1), sc \in ServerContents :
           \A text \in (IF sc = "content" THEN ShortFragments ELSE {}) \cup {<<>>} :
           ReceiveResp(sru, sc, text) =>
             LET b == IF sc = "content" /\ PassesOrNoise(text)
                      THEN current_buffer \o text ELSE current_buffer
             IN \/ NoFlush(b)
                \/ FlushesOnce(b) /\ Strip(b) # <<>>
                \/ /\ sc = "interrupted"
                   /\ Strip(b) = <<>>
                   /\ translation_queue' = translation_queue
                   /\ current_buffer' = <<>>
      /\ \/ current_buffer' = current_buffer
         \/ current_buffer' = <<>>
         \/ \E text \in ShortFragments :
              PassesOrNoise(text) /\ current_buffer' = current_buffer \o text
      /\ Len(translation_queue') > Len(translation_queue) =>
           /\ Len(translation_queue') = Len(translation_queue) + 1
           /\ translation_queue'[Len(translation_queue')].text # <<>>
           /\ current_buffer' = <<>>
      /\ (sessPc # "streaming" /\ sessPc' = "streaming") => current_buffer' = <<>>
    ]_vars

\* two chunks of one connection, each made of several accepted fragments and
\* trimmed, the second holding nothing of the first, and the buffer empty
C23_Witness ==
  /\ sessPc = "streaming"
  /\ source_lang = "en"
  /\ Len(translation_queue) = 2
  /\ translation_queue[1].text = Hi \o OkDot
  /\ translation_queue[1].why = "sentence"
  /\ translation_queue[2].text = Hi \o Blank \o Hi
  /\ translation_queue[2].why = "duration"
  /\ current_buffer = <<>>

====
